---- MODULE Spec2Model ----
(***************************************************************************)
(* Model of src/server.js: the upload fallback chain (uploadToReplicate),  *)
(* the prediction orchestrator (runPredictionWithUrl), the handlers of     *)
(* POST /api/remove and GET /api/health, and two requests in flight.       *)
(*                                                                         *)
(* JavaScript strings are sequences of tokens.  A token is a group of      *)
(* characters that the code's regular expressions and separators never     *)
(* split: "http://" is one token, ":" is one token, " " is one blank.      *)
(* undefined and null are the reserved values UNDEF and NULL.              *)
(***************************************************************************)
EXTENDS Integers, Sequences, FiniteSets, TLC

VARIABLES
    \* process configuration (src/server.js:30-34,48)
    REPLICATE_API_TOKEN, REPLICATE_MODEL_VERSION,
    CLOUDINARY_CLOUD_NAME, CLOUDINARY_UPLOAD_PRESET,
    \* one call of uploadToReplicate
    upc,        \* position of the call
    upSent,     \* backends a request was sent to, in order
    upOk,       \* backends whose attempt was accepted
    upResp,     \* the response that was accepted
    upResult,   \* the returned URL
    upErr,      \* the thrown error's message
    \* one call of runPredictionWithUrl
    ppc,        \* position of the call
    videoUrl,   \* its argument
    net,        \* requests sent to the provider, in order
    status, lastData,
    lastRecv,   \* the job record of the last answer that was read
    elapsed,    \* Date.now() - startedAt
    observed,   \* statuses read from the submission and from each poll
    sleeps,     \* completed setTimeout waits
    lastGap,    \* wait that preceded the most recent poll GET
    pResult,    \* the returned job record
    pErr,       \* the thrown error's message
    predictionId,
    logs,       \* entries pushed through onLog and by the handler
    \* one request to POST /api/remove
    hpc,        \* position of the handler
    req,        \* the request
    res,        \* responses sent for it, in order
    \* the provider and the rest of the process
    issued,     \* predictions the provider has created
    health,     \* the last answer of GET /api/health
    cur,        \* the request whose variables are the ones above
    parked,     \* the variables of the other request in flight
    horizon     \* the number of polls of one call that are followed

cfgVars == <<REPLICATE_API_TOKEN, REPLICATE_MODEL_VERSION,
             CLOUDINARY_CLOUD_NAME, CLOUDINARY_UPLOAD_PRESET>>
upVars == <<upc, upSent, upOk, upResp, upResult, upErr>>
prVars == <<ppc, videoUrl, net, status, lastData, lastRecv, elapsed, observed,
            sleeps, lastGap, pResult, pErr, predictionId, logs>>
hVars == <<hpc, req, res>>
ccVars == <<health, cur, parked, horizon>>
vars == <<cfgVars, upVars, prVars, hVars, issued, ccVars>>

----------------------------------------------------------------------------
\* JavaScript values

UNDEF == <<"<undefined>">>
NULL == <<"<null>">>

\* ToBoolean of a string, undefined or null
Truthy(v) == v # UNDEF /\ v # NULL /\ v # <<>>

\* a || b
Or(a, b) == IF Truthy(a) THEN a ELSE b

\* ${v} in a template literal
Str(v) == IF v = UNDEF THEN <<"undefined">> ELSE IF v = NULL THEN <<"null">> ELSE v

IsBlank(t) == t = " "

RECURSIVE TrimStart(_)
TrimStart(s) == IF s # <<>> /\ IsBlank(Head(s)) THEN TrimStart(Tail(s)) ELSE s

RECURSIVE TrimEnd(_)
TrimEnd(s) ==
    IF s # <<>> /\ IsBlank(s[Len(s)]) THEN TrimEnd(SubSeq(s, 1, Len(s) - 1)) ELSE s

\* String.prototype.trim
Trim(s) == TrimEnd(TrimStart(s))

StartsWith(s, p) == Len(s) >= Len(p) /\ SubSeq(s, 1, Len(p)) = p

Contains(s, t) == \E i \in 1..Len(s) : s[i] = t

\* s.replace(/^http:\/\//, "https://"): case-sensitive, anchored at the start
HttpsCoerce(s) ==
    IF s # <<>> /\ Head(s) = "http://" THEN <<"https://">> \o Tail(s) ELSE s

----------------------------------------------------------------------------
\* uploadToReplicate: the backends in priority order

Backends == <<"cloudinary", "catbox.moe", "tmpfiles.org", "transfer.sh">>

BackendIndex(b) == CHOOSE i \in 1..Len(Backends) : Backends[i] = b

\* a mutant of CloudinaryConfigured: the cloud name alone is looked at
CloudinaryConfigured_NameOnly == Truthy(CLOUDINARY_CLOUD_NAME)

\* if (CLOUDINARY_CLOUD_NAME && CLOUDINARY_UPLOAD_PRESET)
CloudinaryConfigured == Truthy(CLOUDINARY_CLOUD_NAME) /\ Truthy(CLOUDINARY_UPLOAD_PRESET)

\* throw new Error("All upload strategies failed (...)")
ExhaustedMsg ==
    <<"All upload strategies failed (", "catbox.moe", ", ", "tmpfiles.org", ", ",
      "transfer.sh", ").">>

\* Bodies the backends may answer with
UrlSamples ==
    { <<"https://", "host/", "v.mp4">>,
      <<"http://", "host/", "v.mp4">>,
      <<"HTTP://", "host/", "v.mp4">>,
      <<"ftp://", "host/", "v.mp4">>,
      <<"host/", "v.mp4">>,
      <<" ", "http://", "host/", "v.mp4", " ">>,
      <<"https://", "files.catbox.moe/", "a.mp4">>,
      <<"http://", "files.catbox.moe/", "a.mp4", " ">>,
      <<"http://", "tmpfiles.org/", "123", "/", "v.mp4">>,
      <<"https://", "tmpfiles.org/", "dl", "/", "123", "/", "v.mp4">>,
      <<"<html>">>,
      <<" ">>,
      <<>> }

\* The JSON documents a backend may answer with: kind "object" is a parsed
\* object, "null" the JSON null, "invalid" a body that is not JSON.
NoFields == [secure_url |-> UNDEF, url |-> UNDEF, dataUrl |-> UNDEF]

JsonSamples ==
    {[kind |-> "invalid", f |-> NoFields], [kind |-> "null", f |-> NoFields],
     [kind |-> "object", f |-> NoFields]}
    \cup {[kind |-> "object", f |-> [NoFields EXCEPT !.secure_url = u]] : u \in UrlSamples}
    \cup {[kind |-> "object", f |-> [NoFields EXCEPT !.url = u]] : u \in UrlSamples}
    \cup {[kind |-> "object", f |-> [NoFields EXCEPT !.dataUrl = u]] : u \in UrlSamples}

NoJson == [kind |-> "invalid", f |-> NoFields]

\* A fetch either rejects ("throw") or resolves with resp.ok false ("non2xx")
\* or true ("ok"); an ok answer carries a text body or a JSON body.
FailedResponses ==
    {[kind |-> k, text |-> <<>>, json |-> NoJson] : k \in {"throw", "non2xx"}}

TextResponses ==
    FailedResponses \cup {[kind |-> "ok", text |-> t, json |-> NoJson] : t \in UrlSamples}

JsonResponses ==
    FailedResponses \cup {[kind |-> "ok", text |-> <<>>, json |-> j] : j \in JsonSamples}

NoResp == [kind |-> "none", text |-> <<>>, json |-> NoJson]

\* const j = await resp.json().catch(() => ({}))
JsonOrEmpty(j) == IF j.kind = "invalid" THEN [kind |-> "object", f |-> NoFields] ELSE j

\* Cloudinary: (j.secure_url || j.url || "").replace(...); reading a field of
\* null throws, which the surrounding catch turns into a failed attempt.
CloudinaryUrl(r) ==
    LET j == JsonOrEmpty(r.json)
    IN  IF r.kind # "ok" \/ j.kind = "null" THEN <<>>
        ELSE HttpsCoerce(Or(Or(j.f.secure_url, j.f.url), <<>>))

CloudinaryAccepts(r) == Truthy(CloudinaryUrl(r))

\* catbox.moe: (await respCat.text()).trim().replace(...)
CatboxUrl(r) == IF r.kind # "ok" THEN <<>> ELSE HttpsCoerce(Trim(r.text))

\* a mutant of CatboxAccepts: any text that is not empty is taken as the URL
CatboxAccepts_AnyText(r) == r.kind = "ok" /\ Truthy(CatboxUrl(r))

\* catUrl && /^https:\/\/files\.catbox\.moe\//.test(catUrl)
CatboxAccepts(r) ==
    /\ r.kind = "ok"
    /\ Truthy(CatboxUrl(r))
    /\ StartsWith(CatboxUrl(r), <<"https://", "files.catbox.moe/">>)

\* tmpfiles.org: m = url.match(/^https:\/\/tmpfiles\.org\/([^\/\?\#]+)/); m[1]
RECURSIVE IdRun(_)
IdRun(s) ==
    IF s = <<>> \/ Head(s) \in {"/", "?", "#"} THEN <<>> ELSE <<Head(s)>> \o IdRun(Tail(s))

TmpfilesMatch(url) ==
    IF StartsWith(url, <<"https://", "tmpfiles.org/">>)
    THEN IdRun(SubSeq(url, 3, Len(url)))
    ELSE <<>>

\* url = url.replace(...); if (m) url = `https://tmpfiles.org/dl/${m[1]}`
TmpfilesNormalize(raw) ==
    LET url == HttpsCoerce(raw)
        m == TmpfilesMatch(url)
    IN  IF m # <<>> THEN <<"https://", "tmpfiles.org/", "dl", "/">> \o m ELSE url

\* let url = j?.data?.url || j?.url
TmpfilesRaw(r) ==
    LET j == JsonOrEmpty(r.json)
    IN  IF r.kind # "ok" \/ j.kind = "null" THEN UNDEF ELSE Or(j.f.dataUrl, j.f.url)

TmpfilesAccepts(r) == Truthy(TmpfilesRaw(r))

TmpfilesUrl(r) == IF TmpfilesAccepts(r) THEN TmpfilesNormalize(TmpfilesRaw(r)) ELSE <<>>

\* transfer.sh: (await tsResp.text()).trim().replace(...), returned as it is
TransferUrl(r) == IF r.kind # "ok" THEN <<>> ELSE HttpsCoerce(Trim(r.text))

TransferAccepts(r) == r.kind = "ok"

----------------------------------------------------------------------------
\* uploadToReplicate: control flow of the try/catch cascade

\* the request of backend b is sent (await fetch(...))
SendTo(b) ==
    /\ upc' = b
    /\ upSent' = Append(upSent, b)
    /\ UNCHANGED <<upOk, upResp, upResult, upErr>>

\* a mutant of Succeed: the attempt is accepted but the function does not return
Succeed_NoReturn(b, r, url) ==
    /\ upOk' = upOk \cup {b}
    /\ upResp' = r
    /\ upResult' = url
    /\ IF BackendIndex(b) < Len(Backends)
       THEN upc' = Backends[BackendIndex(b) + 1]
            /\ upSent' = Append(upSent, Backends[BackendIndex(b) + 1])
       ELSE upc' = "returned" /\ upSent' = upSent
    /\ UNCHANGED upErr

\* return url
Succeed(b, r, url) ==
    /\ upc' = "returned"
    /\ upOk' = upOk \cup {b}
    /\ upResp' = r
    /\ upResult' = url
    /\ UNCHANGED <<upSent, upErr>>

\* the call starts: the first request goes to Cloudinary when it is configured,
\* to catbox.moe otherwise
UploadCall ==
    /\ upc = "call"
    /\ IF CloudinaryConfigured THEN SendTo("cloudinary") ELSE SendTo("catbox.moe")
    /\ UNCHANGED <<cfgVars, prVars, hVars, issued, ccVars>>

CloudinaryResponse(r) ==
    /\ upc = "cloudinary"
    /\ IF CloudinaryAccepts(r)
       THEN Succeed("cloudinary", r, CloudinaryUrl(r))
       ELSE SendTo("catbox.moe")
    /\ UNCHANGED <<cfgVars, prVars, hVars, issued, ccVars>>

\* a mutant of CatboxResponse: a failed attempt on catbox.moe is made once more
CatboxResponse_Retry(r) ==
    /\ upc = "catbox.moe"
    /\ IF CatboxAccepts(r)
       THEN Succeed("catbox.moe", r, CatboxUrl(r))
       ELSE IF Len(upSent) < Len(Backends)
            THEN SendTo("catbox.moe")
            ELSE SendTo("tmpfiles.org")
    /\ UNCHANGED <<cfgVars, prVars, hVars, issued, ccVars>>

CatboxResponse(r) ==
    /\ upc = "catbox.moe"
    /\ IF CatboxAccepts(r)
       THEN Succeed("catbox.moe", r, CatboxUrl(r))
       ELSE SendTo("tmpfiles.org")
    /\ UNCHANGED <<cfgVars, prVars, hVars, issued, ccVars>>

TmpfilesResponse(r) ==
    /\ upc = "tmpfiles.org"
    /\ IF TmpfilesAccepts(r)
       THEN Succeed("tmpfiles.org", r, TmpfilesUrl(r))
       ELSE SendTo("transfer.sh")
    /\ UNCHANGED <<cfgVars, prVars, hVars, issued, ccVars>>

TransferResponse(r) ==
    /\ upc = "transfer.sh"
    /\ IF TransferAccepts(r)
       THEN Succeed("transfer.sh", r, TransferUrl(r))
       ELSE /\ upc' = "thrown"
            /\ upErr' = ExhaustedMsg
            /\ UNCHANGED <<upSent, upOk, upResp, upResult>>
    /\ UNCHANGED <<cfgVars, prVars, hVars, issued, ccVars>>

----------------------------------------------------------------------------
\* parseReplicateModelVersion and the endpoint

\* val.split(":")
RECURSIVE Split(_, _)
Split(s, sep) ==
    IF ~Contains(s, sep) THEN <<s>>
    ELSE LET i == CHOOSE k \in 1..Len(s) : s[k] = sep /\ \A m \in 1..(k - 1) : s[m] # sep
         IN  <<SubSeq(s, 1, i - 1)>> \o Split(SubSeq(s, i + 1, Len(s)), sep)

\* a mutant of parseReplicateModelVersion: a bare identifier is taken as the model
parseReplicateModelVersion_BareIsModel(val) ==
    IF ~Truthy(val) THEN [model |-> NULL, version |-> NULL]
    ELSE IF Contains(val, ":")
         THEN [model |-> Or(Split(val, ":")[1], NULL),
               version |-> Or(Split(val, ":")[2], NULL)]
         ELSE [model |-> val, version |-> val]

parseReplicateModelVersion(val) ==
    IF ~Truthy(val) THEN [model |-> NULL, version |-> NULL]
    ELSE IF Contains(val, ":")
         THEN \* const [model, version] = val.split(":")
              [model |-> Or(Split(val, ":")[1], NULL),
               version |-> Or(Split(val, ":")[2], NULL)]
         ELSE [model |-> NULL, version |-> val]

REPLICATE_MODEL_SLUG == parseReplicateModelVersion(REPLICATE_MODEL_VERSION).model

REPLICATE_VERSION_ID == parseReplicateModelVersion(REPLICATE_MODEL_VERSION).version

GenericEndpoint == <<"https://api.replicate.com/v1/predictions">>

\* const endpoint = REPLICATE_MODEL_SLUG && (REPLICATE_VERSION_ID || REPLICATE_MODEL_VERSION) ? ... : ...
endpoint ==
    IF Truthy(REPLICATE_MODEL_SLUG) /\ Truthy(Or(REPLICATE_VERSION_ID, REPLICATE_MODEL_VERSION))
    THEN <<"https://api.replicate.com/v1/models/">> \o REPLICATE_MODEL_SLUG
         \o <<"/versions/">> \o Or(REPLICATE_VERSION_ID, REPLICATE_MODEL_VERSION)
         \o <<"/predictions">>
    ELSE GenericEndpoint

\* `https://api.replicate.com/v1/predictions/${predictionId}`
PollUrl(id) == <<"https://api.replicate.com/v1/predictions/">> \o Str(id)

----------------------------------------------------------------------------
\* runPredictionWithUrl

timeoutMs == 10 * 60 * 1000

pollDelayMs == 2000

\* a mutant of NonTerminal: a canceled job is waited for as well
NonTerminal_WithCanceled == {<<"queued">>, <<"starting">>, <<"processing">>, <<"canceled">>}

\* a mutant of NonTerminal: the loop condition of the earlier revisions
NonTerminal_NoQueued == {<<"starting">>, <<"processing">>}

\* ["queued", "starting", "processing"].includes(status)
NonTerminal == {<<"queued">>, <<"starting">>, <<"processing">>}

Succeeded == <<"succeeded">>

TimeoutMsg == <<"Prediction timed out.">>

\* a mutant of EndedMsg: the remote error detail is dropped
EndedMsg_NoDetail(st, data) ==
    <<"Prediction ended with status: ">> \o Str(st) \o <<", error: ">> \o <<"unknown">>

\* `Prediction ended with status: ${status}, error: ${lastData.error || "unknown"}`
EndedMsg(st, data) ==
    <<"Prediction ended with status: ">> \o Str(st) \o <<", error: ">>
    \o Or(data.error, <<"unknown">>)

\* `Replicate prediction start failed: ${startResp.status} ${text}`
StartFailedMsg(r) == <<"Replicate prediction start failed: ">> \o r.code \o <<" ">> \o r.text

\* `Replicate prediction poll failed: ${pollResp.status} ${text}`
PollFailedMsg(r) == <<"Replicate prediction poll failed: ">> \o r.code \o <<" ">> \o r.text

\* the rejection of fetch, and of resp.json() on a body that is not JSON
FetchErrorMsg == <<"request failed">>
JsonErrorMsg == <<"invalid json response body">>

NoJob == [id |-> UNDEF, status |-> UNDEF, output |-> UNDEF, error |-> UNDEF, logs |-> UNDEF]

\* Job records the provider may answer with
Job(st, out, err, lg) ==
    [id |-> <<"p1">>, status |-> st, output |-> out, error |-> err, logs |-> lg]

OutputUrl == <<"https://", "cdn/", "out.mp4">>

JobSamples ==
    {Job(st, UNDEF, UNDEF, UNDEF) : st \in {<<"queued">>, <<"starting">>, <<"processing">>}}
    \cup {Job(Succeeded, OutputUrl, UNDEF, <<"done">>), Job(Succeeded, UNDEF, UNDEF, UNDEF),
          Job(<<"failed">>, UNDEF, <<"boom">>, <<"trace">>), Job(<<"failed">>, UNDEF, UNDEF, UNDEF),
          Job(<<"failed">>, UNDEF, <<>>, UNDEF), Job(<<"canceled">>, UNDEF, NULL, UNDEF),
          Job(<<"paused">>, UNDEF, UNDEF, UNDEF), Job(UNDEF, UNDEF, <<"bad input">>, UNDEF)}

ProviderResponses ==
    {[kind |-> "throw", code |-> <<>>, text |-> <<>>, job |-> NoJob],
     [kind |-> "badjson", code |-> <<"200">>, text |-> <<"<html>">>, job |-> NoJob],
     [kind |-> "non2xx", code |-> <<"500">>, text |-> <<"oops">>, job |-> NoJob],
     [kind |-> "non2xx", code |-> <<"404">>, text |-> <<>>, job |-> NoJob]}
    \cup {[kind |-> "ok", code |-> <<"200">>, text |-> <<>>, job |-> j] : j \in JobSamples}

\* Time a poll GET takes, and how late a timer may fire
MaxPolls == 3
SleepJitter == 1
Latencies == {0, (timeoutMs \div 2) - pollDelayMs, timeoutMs \div 2}
Jitters == {0, SleepJitter}

Polls == Cardinality({i \in 1..Len(net) : net[i].method = "GET"})

\* throw new Error(msg)
Throw(msg) == ppc' = "thrown" /\ pErr' = msg /\ pResult' = pResult

\* a mutant of TimedOut: the budget counts as exceeded from the start
TimedOut_Always(el) == TRUE

\* a mutant of TimedOut: the budget is exceeded one delay later
TimedOut_Late(el) == el > timeoutMs + pollDelayMs

\* a mutant of TimedOut: the budget check never fires
TimedOut_Never(el) == FALSE

\* Date.now() - startedAt > timeoutMs
TimedOut(el) == el > timeoutMs

\* a mutant of LoopTop: the job is returned whatever status ended the loop
LoopTop_NoStatusCheck(st, data, el) ==
    IF st \in NonTerminal
    THEN IF TimedOut(el) THEN Throw(TimeoutMsg)
         ELSE ppc' = "sleeping" /\ pErr' = pErr /\ pResult' = pResult
    ELSE ppc' = "returned" /\ pResult' = data /\ pErr' = pErr

\* a mutant of LoopTop: the budget is checked before the status is looked at
LoopTop_TimeoutFirst(st, data, el) ==
    IF TimedOut(el) THEN Throw(TimeoutMsg)
    ELSE IF st \in NonTerminal
    THEN ppc' = "sleeping" /\ pErr' = pErr /\ pResult' = pResult
    ELSE IF st # Succeeded THEN Throw(EndedMsg(st, data))
         ELSE ppc' = "returned" /\ pResult' = data /\ pErr' = pErr

\* a mutant of LoopTop: the body of the loop runs once before the condition
LoopTop_DoWhile(st, data, el) ==
    IF st \in NonTerminal \/ Polls = 0
    THEN IF TimedOut(el) THEN Throw(TimeoutMsg)
         ELSE ppc' = "sleeping" /\ pErr' = pErr /\ pResult' = pResult
    ELSE IF st # Succeeded THEN Throw(EndedMsg(st, data))
         ELSE ppc' = "returned" /\ pResult' = data /\ pErr' = pErr

\* The code from the top of the while loop to its next await or to the end of
\* the function, with status st, lastData data and elapsed time el.
LoopTop(st, data, el) ==
    IF st \in NonTerminal
    THEN IF TimedOut(el) THEN Throw(TimeoutMsg)
         ELSE \* await new Promise((r) => setTimeout(r, 2000))
              ppc' = "sleeping" /\ pErr' = pErr /\ pResult' = pResult
    ELSE IF st # Succeeded THEN Throw(EndedMsg(st, data))
         ELSE ppc' = "returned" /\ pResult' = data /\ pErr' = pErr

\* onLog("error: timed out"), reached from the top of the loop
LoopLog(st, el) ==
    IF st \in NonTerminal /\ TimedOut(el) THEN <<(<<"error: timed out">>)>> ELSE <<>>

\* the ids the provider gives to the predictions it creates
IdNames == <<"p1", "p2", "p3">>

\* a mutant of Submit: the input names the video twice, as video and video_url
Submit_TwoFields ==
    /\ ppc = "call"
    /\ net' = <<[method |-> "POST", url |-> endpoint,
                 body |-> {<<"input", "video", videoUrl>>,
                           <<"input", "video_url", videoUrl>>}]>>
    /\ logs' = logs \o << <<"start: POST ">> \o endpoint,
                          <<"input: keys=", "video", " video=">> \o Str(videoUrl) >>
    /\ ppc' = "submitting"
    /\ UNCHANGED <<cfgVars, upVars, videoUrl, status, lastData, lastRecv, elapsed,
                   observed, sleeps, lastGap, pResult, pErr, predictionId,
                   hVars, issued, ccVars>>

\* the call: the body is built and the submission POST is sent
Submit ==
    /\ ppc = "call"
    /\ net' = <<[method |-> "POST", url |-> endpoint,
                 body |-> {<<"input", "video", videoUrl>>}]>>
    /\ logs' = logs \o << <<"start: POST ">> \o endpoint,
                          <<"input: keys=", "video", " video=">> \o Str(videoUrl) >>
    /\ ppc' = "submitting"
    /\ UNCHANGED <<cfgVars, upVars, videoUrl, status, lastData, lastRecv, elapsed,
                   observed, sleeps, lastGap, pResult, pErr, predictionId,
                   hVars, issued, ccVars>>

\* the submission is answered
SubmitResponse(r) ==
    /\ ppc = "submitting"
    /\ IF r.kind = "ok"
       THEN LET startData == [r.job EXCEPT !.id = <<IdNames[issued + 1]>>]
            IN  /\ issued' = issued + 1
                /\ predictionId' = startData.id
                /\ status' = startData.status
                /\ lastData' = startData
                /\ lastRecv' = startData
                /\ observed' = <<startData.status>>
                /\ elapsed' = 0
                /\ logs' = Append(logs, <<"start: response ">> \o r.code)
                           \o LoopLog(startData.status, 0)
                /\ LoopTop(startData.status, startData, 0)
       ELSE /\ Throw(CASE r.kind = "non2xx" -> StartFailedMsg(r)
                       [] r.kind = "badjson" -> JsonErrorMsg
                       [] OTHER -> FetchErrorMsg)
            /\ logs' = IF r.kind = "throw" THEN logs
                       ELSE Append(logs, <<"start: response ">> \o r.code)
            /\ UNCHANGED <<status, lastData, lastRecv, observed, elapsed,
                           predictionId, issued>>
    /\ UNCHANGED <<cfgVars, upVars, videoUrl, net, sleeps, lastGap, hVars, ccVars>>

\* a mutant of PolledId: predictionId is kept in one variable of the module,
\* which the latest submission answered has set
PolledId_ModuleLevel == <<IdNames[issued]>>

\* const predictionId = startData.id, as read by the poll fetch
PolledId == predictionId

\* the prediction a poll GET asks for: the tokens after the path
AskedId(request) == SubSeq(request.url, 2, Len(request.url))

\* a mutant of WakeAndPoll: the poll GET is sent without waiting
WakeAndPoll_NoDelay(late) ==
    /\ ppc = "sleeping"
    /\ Polls < horizon
    /\ sleeps' = sleeps + 1
    /\ lastGap' = 0
    /\ logs' = Append(logs, <<"poll: GET /v1/predictions/">> \o Str(PolledId))
    /\ net' = Append(net, [method |-> "GET", url |-> PollUrl(PolledId), body |-> {}])
    /\ ppc' = "polling"
    /\ UNCHANGED <<cfgVars, upVars, videoUrl, status, lastData, lastRecv, elapsed,
                   observed, pResult, pErr, predictionId, hVars, issued, ccVars>>

\* the timer fires, late milliseconds after the delay, and the poll GET is sent
WakeAndPoll(late) ==
    /\ ppc = "sleeping"
    /\ Polls < horizon
    /\ elapsed' = elapsed + pollDelayMs + late
    /\ sleeps' = sleeps + 1
    /\ lastGap' = pollDelayMs + late
    /\ logs' = Append(logs, <<"poll: GET /v1/predictions/">> \o Str(PolledId))
    /\ net' = Append(net, [method |-> "GET", url |-> PollUrl(PolledId), body |-> {}])
    /\ ppc' = "polling"
    /\ UNCHANGED <<cfgVars, upVars, videoUrl, status, lastData, lastRecv,
                   observed, pResult, pErr, predictionId, hVars, issued, ccVars>>

\* a mutant of PollResponse: a poll answered with a non-2xx status is retried
\* after the next sleep
PollResponse_Retry(r, took) ==
    /\ ppc = "polling"
    /\ elapsed' = elapsed + took
    /\ IF r.kind = "ok"
       THEN LET job == [r.job EXCEPT !.id = AskedId(net[Len(net)])]
            IN  /\ status' = job.status
                /\ lastData' = job
                /\ lastRecv' = job
                /\ observed' = Append(observed, job.status)
                /\ logs' = Append(logs, <<"status: ">> \o Str(job.status))
                           \o LoopLog(job.status, elapsed + took)
                /\ LoopTop(job.status, job, elapsed + took)
       ELSE /\ IF r.kind = "non2xx"
               THEN ppc' = "sleeping" /\ pErr' = pErr /\ pResult' = pResult
               ELSE Throw(IF r.kind = "badjson" THEN JsonErrorMsg ELSE FetchErrorMsg)
            /\ logs' = IF r.kind = "non2xx"
                       THEN Append(logs, <<"poll: response ">> \o r.code \o <<" ">> \o r.text)
                       ELSE logs
            /\ UNCHANGED <<status, lastData, lastRecv, observed>>
    /\ UNCHANGED <<cfgVars, upVars, videoUrl, net, sleeps, lastGap, predictionId,
                   hVars, issued, ccVars>>

\* the poll is answered after took milliseconds
PollResponse(r, took) ==
    /\ ppc = "polling"
    /\ elapsed' = elapsed + took
    /\ IF r.kind = "ok"
       THEN \* the provider answers for the prediction the GET asked for
            LET job == [r.job EXCEPT !.id = AskedId(net[Len(net)])]
            IN  /\ status' = job.status
                /\ lastData' = job
                /\ lastRecv' = job
                /\ observed' = Append(observed, job.status)
                /\ logs' = Append(logs, <<"status: ">> \o Str(job.status))
                           \o LoopLog(job.status, elapsed + took)
                /\ LoopTop(job.status, job, elapsed + took)
       ELSE /\ Throw(CASE r.kind = "non2xx" -> PollFailedMsg(r)
                       [] r.kind = "badjson" -> JsonErrorMsg
                       [] OTHER -> FetchErrorMsg)
            /\ logs' = IF r.kind = "non2xx"
                       THEN Append(logs, <<"poll: response ">> \o r.code \o <<" ">> \o r.text)
                       ELSE logs
            /\ UNCHANGED <<status, lastData, lastRecv, observed>>
    /\ UNCHANGED <<cfgVars, upVars, videoUrl, net, sleeps, lastGap, predictionId,
                   hVars, issued, ccVars>>

----------------------------------------------------------------------------
\* Configuration values and idle calls

ConfigStrings == {<<>>, <<"set">>}

UploadIdle ==
    /\ upc = "idle" /\ upSent = <<>> /\ upOk = {} /\ upResp = NoResp
    /\ upResult = UNDEF /\ upErr = UNDEF

PredictIdle ==
    /\ ppc = "idle" /\ videoUrl = UNDEF /\ net = <<>> /\ status = UNDEF
    /\ lastData = NoJob /\ lastRecv = NoJob /\ elapsed = 0 /\ observed = <<>> /\ sleeps = 0
    /\ lastGap = 0 /\ pResult = NoJob /\ pErr = UNDEF
    /\ predictionId = UNDEF /\ logs = <<>>

\* req.file when the request carried no file part
NoFile == [present |-> FALSE, buffer |-> FALSE, originalname |-> FALSE]

NoReq == [json |-> FALSE, url |-> UNDEF, file |-> NoFile]

\* GET /api/health was not asked yet
NoHealth == [ok |-> FALSE, service |-> <<>>, replicateConfigured |-> FALSE]

\* no request to POST /api/remove is in flight and none was answered
HandlerIdle == hpc = "idle" /\ req = NoReq /\ res = <<>>

ProcessIdle ==
    issued = 0 /\ health = NoHealth /\ cur = 1 /\ parked = <<>> /\ horizon = MaxPolls

\* One call of uploadToReplicate, from POST /api/remove with a file: the
\* handler has checked that the credential and the model identifier are set.
InitUpload ==
    /\ REPLICATE_API_TOKEN = <<"set">>
    /\ REPLICATE_MODEL_VERSION = <<"abc123">>
    /\ CLOUDINARY_CLOUD_NAME \in ConfigStrings
    /\ CLOUDINARY_UPLOAD_PRESET \in ConfigStrings
    /\ upc = "call" /\ upSent = <<>> /\ upOk = {} /\ upResp = NoResp
    /\ upResult = UNDEF /\ upErr = UNDEF
    /\ PredictIdle
    /\ HandlerIdle
    /\ ProcessIdle

NextUpload ==
    \/ UploadCall
    \/ \E r \in JsonResponses : CloudinaryResponse(r)
    \/ \E r \in TextResponses : CatboxResponse(r)
    \/ \E r \in JsonResponses : TmpfilesResponse(r)
    \/ \E r \in TextResponses : TransferResponse(r)

SpecUpload == InitUpload /\ [][NextUpload]_vars

\* The identifiers REPLICATE_MODEL_VERSION may be set to
ModelVersionSamples ==
    { <<"owner/name", ":", "abc123">>, <<"abc123">>, <<":", "abc123">>,
      <<"owner/name", ":">>, <<":">>, <<"owner/name", ":", "abc", ":", "def">> }

VideoUrlSamples == { <<"https://", "example.com/", "in.mp4">> }

\* One call of runPredictionWithUrl, from POST /api/remove: the handler has
\* checked that the credential and the model identifier are set.
InitPredict ==
    /\ REPLICATE_API_TOKEN = <<"set">>
    /\ REPLICATE_MODEL_VERSION \in ModelVersionSamples
    /\ CLOUDINARY_CLOUD_NAME = <<>>
    /\ CLOUDINARY_UPLOAD_PRESET = <<>>
    /\ UploadIdle
    /\ ppc = "call" /\ videoUrl \in VideoUrlSamples /\ net = <<>> /\ status = UNDEF
    /\ lastData = NoJob /\ lastRecv = NoJob /\ elapsed = 0 /\ observed = <<>>
    /\ sleeps = 0 /\ lastGap = 0 /\ pResult = NoJob /\ pErr = UNDEF
    /\ predictionId = UNDEF /\ logs = <<>>
    /\ HandlerIdle
    /\ ProcessIdle

NextPredict ==
    \/ Submit
    \/ \E r \in ProviderResponses : SubmitResponse(r)
    \/ \E late \in Jitters : WakeAndPoll(late)
    \/ \E r \in ProviderResponses : \E took \in Latencies : PollResponse(r, took)

SpecPredict == InitPredict /\ [][NextPredict]_vars

----------------------------------------------------------------------------
\* POST /api/remove and GET /api/health

\* A request as the handler sees it: json is req.is("application/json"), url
\* is req.body.url and file is req.file. express.json fills req.body of a JSON
\* request only and upload.single("file") fills req.file, and req.body with
\* the text fields, of a multipart request only.
Req(j, u, f) == [json |-> j, url |-> u, file |-> f]

File(b, n) == [present |-> TRUE, buffer |-> b, originalname |-> n]

FileSamples == {NoFile} \cup {File(b, n) : b \in BOOLEAN, n \in BOOLEAN}

BodyUrl == <<"https://", "example.com/", "in.mp4">>
FieldUrl == <<"https://", "example.com/", "field.mp4">>

JsonUrlSamples == {UNDEF, NULL, <<>>, <<" ">>, BodyUrl, <<" ">> \o BodyUrl \o <<" ", " ">>}

RequestSamples ==
    {Req(TRUE, u, NoFile) : u \in JsonUrlSamples}
    \cup {Req(FALSE, u, f) : u \in {UNDEF, FieldUrl}, f \in FileSamples}

\* !!(REPLICATE_API_TOKEN && REPLICATE_MODEL_VERSION)
HealthConfigured == Truthy(REPLICATE_API_TOKEN) /\ Truthy(REPLICATE_MODEL_VERSION)

\* the body of the answer of GET /api/health
HealthBody ==
    [ok |-> TRUE, service |-> <<"SoraWatermarkCleaner">>,
     replicateConfigured |-> HealthConfigured]

GetHealth ==
    /\ health' = HealthBody
    /\ UNCHANGED <<cfgVars, upVars, prVars, hVars, issued, cur, parked, horizon>>

\* a mutant of NotConfigured: only the credential is looked at
NotConfigured_TokenOnly == ~Truthy(REPLICATE_API_TOKEN)

\* !REPLICATE_API_TOKEN || !REPLICATE_MODEL_VERSION
NotConfigured == ~Truthy(REPLICATE_API_TOKEN) \/ ~Truthy(REPLICATE_MODEL_VERSION)

NotConfiguredMsg ==
    <<"Server not configured. Set REPLICATE_API_TOKEN and REPLICATE_MODEL_VERSION.">>

\* a mutant of TakesUrlBranch: the url of any parsed body is taken
TakesUrlBranch_AnyBody(r) == Truthy(r.url)

\* req.is("application/json") && req.body && req.body.url
TakesUrlBranch(r) == r.json /\ Truthy(r.url)

\* a mutant of UrlOf: the url is passed on as it was sent
UrlOf_Untrimmed(r) == Str(r.url)

\* String(req.body.url).trim()
UrlOf(r) == Trim(Str(r.url))

\* a mutant of FileUnusable: the file is taken as it is
FileUnusable_Never(f) == FALSE

\* !file.buffer || !file.originalname
FileUnusable(f) == ~f.buffer \/ ~f.originalname

\* res.status(code).json(body); a field that is undefined is left out of the JSON
Body(e, st, out, lg) == [error |-> e, status |-> st, output |-> out, logs |-> lg]

Respond(code, body) ==
    /\ res' = Append(res, [code |-> code, body |-> body])
    /\ hpc' = "done"

\* res.status(code).json({ error: msg })
Reject(code, msg) == Respond(code, Body(msg, UNDEF, UNDEF, UNDEF))

\* a mutant of Fail: the message of the error is not passed on
Fail_Generic(msg) == Reject(500, <<"Server error">>)

\* catch (err): res.status(500).json({ error: err.message || "Server error" })
Fail(msg) == Reject(500, Or(msg, <<"Server error">>))

\* Array.prototype.join("\n")
RECURSIVE Join(_)
Join(entries) ==
    IF entries = <<>> THEN <<>>
    ELSE IF Len(entries) = 1 THEN entries[1]
    ELSE entries[1] \o <<"\n">> \o Join(Tail(entries))

\* [...logs, ...(prediction.logs ? [String(prediction.logs)] : [])].join("\n")
LogsField(prediction) ==
    Join(logs \o (IF Truthy(prediction.logs) THEN <<Str(prediction.logs)>> ELSE <<>>))

\* The handler from its entry to its first await or to its response. A call of
\* uploadToReplicate or runPredictionWithUrl it makes is left at its start:
\* UploadCall and Submit carry it to its first fetch.
Handle ==
    /\ hpc = "received"
    /\ IF NotConfigured
       THEN Reject(500, NotConfiguredMsg) /\ UNCHANGED <<upVars, prVars>>
       ELSE IF TakesUrlBranch(req)
       THEN IF UrlOf(req) = <<>>
            THEN Reject(400, <<"Invalid URL.">>) /\ UNCHANGED <<upVars, prVars>>
            ELSE /\ videoUrl' = UrlOf(req)
                 /\ logs' = <<>>
                 /\ ppc' = "call"
                 /\ hpc' = "predicting"
                 /\ UNCHANGED <<res, upVars, net, status, lastData, lastRecv, elapsed,
                                observed, sleeps, lastGap, pResult, pErr, predictionId>>
       ELSE IF req.file.present
       THEN IF FileUnusable(req.file)
            THEN Reject(400, <<"Invalid file upload.">>) /\ UNCHANGED <<upVars, prVars>>
            ELSE /\ logs' = <<>>
                 /\ upc' = "call"
                 /\ hpc' = "uploading"
                 /\ UNCHANGED <<res, upSent, upOk, upResp, upResult, upErr, ppc, videoUrl,
                                net, status, lastData, lastRecv, elapsed, observed,
                                sleeps, lastGap, pResult, pErr, predictionId>>
       ELSE Reject(400, <<"Provide either JSON {url} or multipart with 'file'.">>)
            /\ UNCHANGED <<upVars, prVars>>
    /\ UNCHANGED <<cfgVars, req, issued, ccVars>>

\* a mutant of UploadThrew: the prediction is tried without an uploaded URL
UploadThrew_Fallback ==
    /\ hpc = "uploading" /\ upc = "thrown"
    /\ videoUrl' = <<>>
    /\ ppc' = "call"
    /\ hpc' = "predicting"
    /\ UNCHANGED <<cfgVars, upVars, req, res, net, status, lastData, lastRecv, elapsed,
                   observed, sleeps, lastGap, pResult, pErr, predictionId, logs,
                   issued, ccVars>>

\* await uploadToReplicate(...) threw: the catch answers
UploadThrew ==
    /\ hpc = "uploading" /\ upc = "thrown"
    /\ Fail(upErr)
    /\ UNCHANGED <<cfgVars, upVars, prVars, req, issued, ccVars>>

\* await uploadToReplicate(...) returned tempUrl: it is logged and
\* runPredictionWithUrl(tempUrl, ...) is called
UploadReturned ==
    /\ hpc = "uploading" /\ upc = "returned"
    /\ logs' = Append(logs, <<"upload: ok -> ">> \o Str(upResult))
    /\ videoUrl' = upResult
    /\ ppc' = "call"
    /\ hpc' = "predicting"
    /\ UNCHANGED <<cfgVars, upVars, req, res, net, status, lastData, lastRecv, elapsed,
                   observed, sleeps, lastGap, pResult, pErr, predictionId,
                   issued, ccVars>>

\* await runPredictionWithUrl(...) returned prediction: res.json({...})
PredictionReturned ==
    /\ hpc = "predicting" /\ ppc = "returned"
    /\ Respond(200, Body(UNDEF, pResult.status, pResult.output, LogsField(pResult)))
    /\ UNCHANGED <<cfgVars, upVars, prVars, req, issued, ccVars>>

\* a mutant of PredictionThrew: the error is not caught and nothing is answered
PredictionThrew_Uncaught ==
    /\ hpc = "predicting" /\ ppc = "thrown"
    /\ hpc' = "failed"
    /\ UNCHANGED <<cfgVars, upVars, prVars, req, res, issued, ccVars>>

\* await runPredictionWithUrl(...) threw: the catch answers
PredictionThrew ==
    /\ hpc = "predicting" /\ ppc = "thrown"
    /\ Fail(pErr)
    /\ UNCHANGED <<cfgVars, upVars, prVars, req, issued, ccVars>>

\* The answers of the upload backends and of the provider one request is
\* run against
HandlerTexts ==
    {r \in TextResponses :
        r.kind = "non2xx"
        \/ (r.kind = "ok" /\ r.text \in {<<"https://", "files.catbox.moe/", "a.mp4">>,
                                        <<"http://", "host/", "v.mp4">>, <<>>})}

HandlerJsons ==
    {r \in JsonResponses :
        r.kind = "non2xx"
        \/ (r.kind = "ok" /\ r.json.kind = "object"
            /\ (r.json.f.secure_url = <<"https://", "host/", "v.mp4">>
                \/ r.json.f.dataUrl = <<"http://", "tmpfiles.org/", "123", "/", "v.mp4">>))}

HandlerAnswers ==
    {r \in ProviderResponses :
        \/ r.kind \in {"throw", "non2xx"} /\ r.code # <<"404">>
        \/ r.kind = "ok" /\ r.job \in {Job(<<"processing">>, UNDEF, UNDEF, UNDEF),
                                       Job(Succeeded, OutputUrl, UNDEF, <<"done">>),
                                       Job(Succeeded, UNDEF, UNDEF, UNDEF),
                                       Job(<<"failed">>, UNDEF, <<"boom">>, <<"trace">>)}}

HandlerLatencies == {0, timeoutMs \div 2}

TokenSamples == {UNDEF, <<>>, <<"set">>}

\* One request to POST /api/remove, and GET /api/health at any moment
InitHandler ==
    /\ REPLICATE_API_TOKEN \in TokenSamples
    /\ REPLICATE_MODEL_VERSION \in {UNDEF, <<>>, <<"abc123">>, <<"owner/name", ":", "abc123">>}
    /\ CLOUDINARY_CLOUD_NAME \in ConfigStrings
    /\ CLOUDINARY_UPLOAD_PRESET = <<"set">>
    /\ UploadIdle
    /\ PredictIdle
    /\ hpc = "received" /\ req \in RequestSamples /\ res = <<>>
    /\ ProcessIdle

NextHandler ==
    \/ GetHealth
    \/ Handle
    \/ UploadCall
    \/ \E r \in HandlerJsons : CloudinaryResponse(r)
    \/ \E r \in HandlerTexts : CatboxResponse(r)
    \/ \E r \in HandlerJsons : TmpfilesResponse(r)
    \/ \E r \in HandlerTexts : TransferResponse(r)
    \/ UploadThrew
    \/ UploadReturned
    \/ Submit
    \/ \E r \in HandlerAnswers : SubmitResponse(r)
    \/ \E late \in {0} : WakeAndPoll(late)
    \/ \E r \in HandlerAnswers : \E took \in HandlerLatencies : PollResponse(r, took)
    \/ PredictionReturned
    \/ PredictionThrew

SpecHandler == InitHandler /\ [][NextHandler]_vars

----------------------------------------------------------------------------
\* Two requests to POST /api/remove in flight

\* What one request in flight holds: the local variables of its handler, of its
\* call of uploadToReplicate and of its call of runPredictionWithUrl
Locals ==
    [upc |-> upc,
     upSent |-> upSent,
     upOk |-> upOk,
     upResp |-> upResp,
     upResult |-> upResult,
     upErr |-> upErr,
     ppc |-> ppc,
     videoUrl |-> videoUrl,
     net |-> net,
     status |-> status,
     lastData |-> lastData,
     lastRecv |-> lastRecv,
     elapsed |-> elapsed,
     observed |-> observed,
     sleeps |-> sleeps,
     lastGap |-> lastGap,
     pResult |-> pResult,
     pErr |-> pErr,
     predictionId |-> predictionId,
     logs |-> logs,
     hpc |-> hpc,
     req |-> req,
     res |-> res]

\* a request handled alone, as it is received
Received(r) ==
    [upc |-> "idle", upSent |-> <<>>, upOk |-> {}, upResp |-> NoResp, upResult |-> UNDEF,
     upErr |-> UNDEF, ppc |-> "idle", videoUrl |-> UNDEF, net |-> <<>>, status |-> UNDEF,
     lastData |-> NoJob, lastRecv |-> NoJob, elapsed |-> 0, observed |-> <<>>,
     sleeps |-> 0, lastGap |-> 0, pResult |-> NoJob, pErr |-> UNDEF,
     predictionId |-> UNDEF, logs |-> <<>>, hpc |-> "received", req |-> r, res |-> <<>>]

\* The event loop turns to the other request in flight: the next step resumes
\* that request, with its own variables.
Switch ==
    /\ parked # <<>>
    /\ cur' = 3 - cur
    /\ parked' = <<Locals>>
    /\ upc' = parked[1].upc
    /\ upSent' = parked[1].upSent
    /\ upOk' = parked[1].upOk
    /\ upResp' = parked[1].upResp
    /\ upResult' = parked[1].upResult
    /\ upErr' = parked[1].upErr
    /\ ppc' = parked[1].ppc
    /\ videoUrl' = parked[1].videoUrl
    /\ net' = parked[1].net
    /\ status' = parked[1].status
    /\ lastData' = parked[1].lastData
    /\ lastRecv' = parked[1].lastRecv
    /\ elapsed' = parked[1].elapsed
    /\ observed' = parked[1].observed
    /\ sleeps' = parked[1].sleeps
    /\ lastGap' = parked[1].lastGap
    /\ pResult' = parked[1].pResult
    /\ pErr' = parked[1].pErr
    /\ predictionId' = parked[1].predictionId
    /\ logs' = parked[1].logs
    /\ hpc' = parked[1].hpc
    /\ req' = parked[1].req
    /\ res' = parked[1].res
    /\ UNCHANGED <<cfgVars, issued, health, horizon>>

ConcurrentRequests == {Req(TRUE, BodyUrl, NoFile), Req(FALSE, UNDEF, File(TRUE, TRUE))}

ConcurrentTexts ==
    {r \in TextResponses :
        r.kind = "non2xx"
        \/ (r.kind = "ok" /\ r.text = <<"https://", "files.catbox.moe/", "a.mp4">>)}

ConcurrentJsons ==
    {r \in JsonResponses :
        r.kind = "non2xx"
        \/ (r.kind = "ok" /\ r.json.kind = "object"
            /\ r.json.f.secure_url = <<"https://", "host/", "v.mp4">>)}

ConcurrentAnswers ==
    {r \in ProviderResponses :
        \/ r.kind = "non2xx" /\ r.code = <<"500">>
        \/ r.kind = "ok" /\ r.job \in {Job(<<"processing">>, UNDEF, UNDEF, UNDEF),
                                       Job(Succeeded, OutputUrl, UNDEF, <<"done">>)}}

InitConcurrent ==
    /\ REPLICATE_API_TOKEN = <<"set">>
    /\ REPLICATE_MODEL_VERSION = <<"owner/name", ":", "abc123">>
    /\ CLOUDINARY_CLOUD_NAME = <<"set">>
    /\ CLOUDINARY_UPLOAD_PRESET = <<"set">>
    /\ UploadIdle
    /\ PredictIdle
    /\ hpc = "received" /\ req \in ConcurrentRequests /\ res = <<>>
    /\ issued = 0 /\ health = NoHealth /\ cur = 1 /\ horizon = MaxPolls
    /\ parked \in {<<Received(r)>> : r \in ConcurrentRequests}

NextConcurrent ==
    \/ Switch
    \/ Handle
    \/ UploadCall
    \/ \E r \in ConcurrentJsons : CloudinaryResponse(r)
    \/ \E r \in ConcurrentTexts : CatboxResponse(r)
    \/ \E r \in ConcurrentJsons : TmpfilesResponse(r)
    \/ \E r \in ConcurrentTexts : TransferResponse(r)
    \/ UploadThrew
    \/ UploadReturned
    \/ Submit
    \/ \E r \in ConcurrentAnswers : SubmitResponse(r)
    \/ \E late \in {0} : WakeAndPoll(late)
    \/ \E r \in ConcurrentAnswers : PollResponse(r, 0)
    \/ PredictionReturned
    \/ PredictionThrew

SpecConcurrent == InitConcurrent /\ [][NextConcurrent]_vars

----------------------------------------------------------------------------
\* One call of runPredictionWithUrl followed to the end of its budget

\* the polls followed: one more than the budget allows
LongPolls == 302

BudgetAnswers ==
    {r \in ProviderResponses :
        r.kind = "ok" /\ r.job \in {Job(<<"processing">>, UNDEF, UNDEF, UNDEF),
                                    Job(Succeeded, OutputUrl, UNDEF, <<"done">>)}}

\* The provider answers at once and keeps answering processing, or succeeded;
\* a timer fires on time or late.
InitBudget ==
    /\ REPLICATE_API_TOKEN = <<"set">>
    /\ REPLICATE_MODEL_VERSION = <<"owner/name", ":", "abc123">>
    /\ CLOUDINARY_CLOUD_NAME = <<>>
    /\ CLOUDINARY_UPLOAD_PRESET = <<>>
    /\ UploadIdle
    /\ ppc = "call" /\ videoUrl \in VideoUrlSamples /\ net = <<>> /\ status = UNDEF
    /\ lastData = NoJob /\ lastRecv = NoJob /\ elapsed = 0 /\ observed = <<>>
    /\ sleeps = 0 /\ lastGap = 0 /\ pResult = NoJob /\ pErr = UNDEF
    /\ predictionId = UNDEF /\ logs = <<>>
    /\ HandlerIdle
    /\ issued = 0 /\ health = NoHealth /\ cur = 1 /\ parked = <<>>
    /\ horizon = LongPolls

NextBudget ==
    \/ Submit
    \/ \E r \in BudgetAnswers : SubmitResponse(r)
    \/ \E late \in Jitters : WakeAndPoll(late)
    \/ \E r \in BudgetAnswers : PollResponse(r, 0)

SpecBudget == InitBudget /\ [][NextBudget]_vars

----------------------------------------------------------------------------
\* One request to POST /api/remove, every await of which settles

\* Time is followed in steps of half the budget: a poll takes that long, so
\* that the budget runs out within the polls that are followed.
LiveLatencies == {timeoutMs \div 2}

\* a step of the request: the handler starts, or an await of it settles
RequestStep ==
    \/ Handle
    \/ UploadCall
    \/ \E r \in HandlerJsons : CloudinaryResponse(r)
    \/ \E r \in HandlerTexts : CatboxResponse(r)
    \/ \E r \in HandlerJsons : TmpfilesResponse(r)
    \/ \E r \in HandlerTexts : TransferResponse(r)
    \/ UploadThrew
    \/ UploadReturned
    \/ Submit
    \/ \E r \in HandlerAnswers : SubmitResponse(r)
    \/ \E late \in Jitters : WakeAndPoll(late)
    \/ \E r \in HandlerAnswers : \E took \in LiveLatencies : PollResponse(r, took)
    \/ PredictionReturned
    \/ PredictionThrew

NextLive == GetHealth \/ RequestStep

\* every fetch returns or throws and every timer fires: a step of the request
\* that can be taken is taken
SpecLive == InitHandler /\ [][NextLive]_vars /\ WF_vars(RequestStep)

----------------------------------------------------------------------------
\* Claims about uploadToReplicate

SentTo(b) == \E i \in 1..Len(upSent) : upSent[i] = b

\* C1: for every pair of backends Bi before Bj in the priority order, if the
\* attempt on Bi was accepted (its URL is returned) then no request was sent to
\* Bj at any moment of the call, the moments after the return included.
C1_ShortCircuit ==
    \A i \in 1..Len(Backends) : \A j \in 1..Len(Backends) :
        (i < j /\ Backends[i] \in upOk) => ~SentTo(Backends[j])

\* catbox.moe answered after Cloudinary failed, and the call returned its URL
C1_Witness ==
    /\ upc = "returned"
    /\ upOk = {"catbox.moe"}
    /\ upSent = <<"cloudinary", "catbox.moe">>
    /\ upResult = <<"https://", "files.catbox.moe/", "a.mp4">>

\* The value a backend's 2xx answer carries where its URL is expected
ExpectedField(b, r) ==
    LET j == JsonOrEmpty(r.json)
    IN  CASE b = "cloudinary" ->
               IF j.kind = "null" THEN UNDEF ELSE Or(Or(j.f.secure_url, j.f.url), UNDEF)
          [] b = "tmpfiles.org" ->
               IF j.kind = "null" THEN UNDEF ELSE Or(Or(j.f.dataUrl, j.f.url), UNDEF)
          [] OTHER -> r.text

Schemes == {"https://", "http://"}

\* empty, missing, or not of the form scheme://rest
LacksUrl(b, r) ==
    LET v == ExpectedField(b, r)
    IN  \/ ~Truthy(v)
        \/ Trim(v) = <<>>
        \/ Head(Trim(v)) \notin Schemes
        \/ Len(Trim(v)) < 2

\* C2: a 2xx response whose body lacks the expected URL (empty, missing field
\* or malformed) is a failed attempt: the call never returns on such a response.
C2_NoUrlIsFailure ==
    upc = "returned" => \A b \in upOk : ~LacksUrl(b, upResp)

\* C3: when every attempted backend failed, the error message names every
\* backend that was attempted in the call.
C3_ExhaustionNamesAll ==
    upc = "thrown" => \A i \in 1..Len(upSent) : Contains(upErr, upSent[i])

\* C4: every returned URL begins with https://, whatever scheme the raw
\* response carried.
C4_ReturnsHttps ==
    upc = "returned" => StartsWith(upResult, <<"https://">>)

----------------------------------------------------------------------------
\* Claims about runPredictionWithUrl

Last(s) == s[Len(s)]

Ended == ppc \in {"returned", "thrown"}

\* every request sent has been answered with a job record that was read
AllAnswered == observed # <<>> /\ Len(observed) = Polls + 1

Waiting == {<<"queued">>, <<"starting">>, <<"processing">>}

Budget == 600000

\* C5, in every state: when every answer read so far carried a status among
\* queued, starting, processing and the budget has elapsed at the loop's check,
\* the call has failed with "Prediction timed out."; that error is raised in no
\* other case; and only the submission POST and poll GETs were ever sent.
C5_TimeoutState ==
    /\ (AllAnswered /\ Last(observed) \in Waiting /\ elapsed > Budget)
           => (ppc = "thrown" /\ pErr = <<"Prediction timed out.">>)
    /\ (ppc = "thrown" /\ pErr = <<"Prediction timed out.">>)
           => (AllAnswered /\ Last(observed) \in Waiting /\ elapsed > Budget)
    /\ \A i \in 1..Len(net) :
           /\ net[i].method = (IF i = 1 THEN "POST" ELSE "GET")
           /\ i > 1 => net[i].url = PollUrl(lastRecv.id)

\* C5: a call whose job never reports a status outside queued, starting,
\* processing before the budget elapses fails with "Prediction timed out.", and
\* after that failure no request (no poll GET, no cancel) is sent.
C5_Timeout ==
    /\ []C5_TimeoutState
    /\ [][ppc = "thrown" => (net' = net /\ ppc' = "thrown")]_vars

\* two polls answered "processing", each taking half the budget: timed out
C5_Witness ==
    /\ ppc = "thrown" /\ pErr = TimeoutMsg
    /\ Polls = 2 /\ elapsed > timeoutMs
    /\ observed[2] = <<"processing">> /\ observed[3] = <<"processing">>

C7_ImmediateSuccess ==
    (observed # <<>> /\ observed[1] = <<"succeeded">>)
        => /\ ppc = "returned"
           /\ sleeps = 0 /\ Polls = 0 /\ Len(net) = 1
           /\ pResult = lastRecv /\ pResult.status = <<"succeeded">>

C7_Witness ==
    /\ ppc = "returned" /\ observed = <<(<<"succeeded">>)>>
    /\ pResult.output = OutputUrl /\ Len(net) = 1

PolledPPS == <<(<<"processing">>), (<<"processing">>), (<<"succeeded">>)>>

\* C8 as stated: polls answering processing, processing, succeeded make the
\* call send exactly two poll GETs and return the succeeded job.
C8_TwoPolls ==
    (ppc = "returned" /\ Len(observed) = 4 /\ Tail(observed) = PolledPPS)
        => (Polls = 2 /\ pResult = lastRecv)

\* C8 amended: polls answering processing, processing, succeeded make the call
\* send exactly three poll GETs, each after a wait of at least 2 seconds, and
\* return the succeeded job with its output.
C8_ThreePolls ==
    /\ Polls > 0 => lastGap >= 2000
    /\ sleeps = Polls
    /\ (Len(observed) = 4 /\ Tail(observed) = PolledPPS)
           => /\ ppc = "returned"
              /\ Polls = 3
              /\ pResult = lastRecv /\ pResult.status = <<"succeeded">>

C8_Witness ==
    /\ ppc = "returned" /\ Polls = 3 /\ sleeps = 3
    /\ Tail(observed) = PolledPPS
    /\ pResult.output = OutputUrl

\* C9: when the loop ends on a status other than queued, starting, processing:
\* succeeded returns the last job record; any other status fails with an error
\* whose message holds that status and the remote error detail, or "unknown"
\* when the job carries none.
C9_TerminalHandling ==
    (AllAnswered /\ Last(observed) \notin Waiting)
        => IF Last(observed) = <<"succeeded">>
           THEN ppc = "returned" /\ pResult = lastRecv /\ pErr = UNDEF
           ELSE /\ ppc = "thrown"
                /\ lastRecv.status = Last(observed)
                /\ pErr = <<"Prediction ended with status: ">> \o Str(lastRecv.status)
                          \o <<", error: ">>
                          \o (IF lastRecv.error \in {UNDEF, NULL, <<>>}
                              THEN <<"unknown">> ELSE lastRecv.error)

\* a poll answered failed with the detail "boom"
C9_Witness ==
    /\ ppc = "thrown" /\ Polls = 1
    /\ lastRecv.status = <<"failed">> /\ lastRecv.error = <<"boom">>
    /\ pErr = <<"Prediction ended with status: ", "failed", ", error: ", "boom">>

----------------------------------------------------------------------------
\* Claims on the prediction orchestrator and the upload chain, continued

Non2xx == {r \in ProviderResponses : r.kind = "non2xx"}

C17_State ==
    /\ ppc \notin {"idle", "call"}
           => /\ Len(net) >= 1 /\ net[1].method = "POST"
              /\ \A i \in 2..Len(net) : net[i].method = "GET"
    /\ ppc \notin {"idle", "call"} => Polls <= Len(observed)

C17_Step ==
    \A r \in Non2xx :
        /\ (ppc = "submitting" /\ logs' = Append(logs, <<"start: response ">> \o r.code))
               => /\ ppc' = "thrown" /\ net' = net /\ Len(net) = 1
                  /\ pErr' = <<"Replicate prediction start failed: ">> \o r.code
                             \o <<" ">> \o r.text
        /\ (ppc = "polling"
            /\ logs' = Append(logs, <<"poll: response ">> \o r.code \o <<" ">> \o r.text))
               => /\ ppc' = "thrown" /\ net' = net
                  /\ pErr' = <<"Replicate prediction poll failed: ">> \o r.code
                             \o <<" ">> \o r.text

\* C17: one call sends exactly one submission POST, first, and every later
\* request is a poll GET sent after all earlier requests were answered with a
\* job record; a non-2xx answer to the submission ends the call as failed with
\* no poll sent; a non-2xx answer to a poll ends the call as failed with the
\* HTTP status and body in the message; a failed call sends nothing more.
C17_NoRetry ==
    /\ []C17_State
    /\ [][C17_Step]_vars
    /\ [][ppc = "thrown" => (net' = net /\ ppc' = "thrown")]_vars

\* the second poll was answered 500 "oops"
C17_Witness ==
    /\ ppc = "thrown" /\ Polls = 2
    /\ pErr = <<"Replicate prediction poll failed: ", "500", " ", "oops">>

Rank(i) == BackendIndex(upSent[i])

\* C18: the backends attempted in one call are in strictly increasing priority
\* order, so none twice; every attempt but the last failed; at most one attempt
\* was accepted and a URL is held only by a call that returned; a call that
\* threw accepted none.
C18_OneAttemptEach ==
    /\ \A i \in 1..Len(upSent) : \A j \in 1..Len(upSent) : i < j => Rank(i) < Rank(j)
    /\ \A i \in 1..Len(upSent) - 1 : upSent[i] \notin upOk
    /\ Cardinality(upOk) <= 1
    /\ upOk # {} => (upc = "returned" /\ upOk = {upSent[Len(upSent)]})
    /\ upResult # UNDEF => upc = "returned"
    /\ upc = "thrown" => upOk = {}

\* transfer.sh answered after the three backends before it failed
C18_Witness ==
    /\ upc = "returned" /\ upSent = Backends /\ upOk = {"transfer.sh"}

C19_State ==
    (observed # <<>> /\ status \notin Waiting)
        => /\ ppc \in {"returned", "thrown"}
           /\ Polls = Len(observed) - 1
           /\ status = Last(observed) /\ lastData.status = status

\* C19: once a status outside queued, starting, processing has been read, the
\* call has ended: its status and last job record never change again, and no
\* status is read after it.
C19_Forward ==
    /\ []C19_State
    /\ [][(observed # <<>> /\ status \notin Waiting)
            => (status' = status /\ lastData' = lastData /\ observed' = observed)]_vars

\* the first poll answered canceled after the submission answered processing
C19_Witness ==
    /\ observed = <<(<<"processing">>), (<<"canceled">>)>>
    /\ status = <<"canceled">> /\ ppc = "thrown"

----------------------------------------------------------------------------
\* Claims about POST /api/remove and GET /api/health

Missing(v) == v = UNDEF \/ v = <<>>

ConfigMissing == Missing(REPLICATE_API_TOKEN) \/ Missing(REPLICATE_MODEL_VERSION)

Answered == hpc = "done"

OnlyError(r) ==
    /\ r.body.error \notin {UNDEF, NULL, <<>>}
    /\ r.body.status = UNDEF /\ r.body.output = UNDEF /\ r.body.logs = UNDEF

\* C11: when the credential or the model identifier is missing, the request is
\* answered 500 "Server not configured" and no request is ever sent to an upload
\* backend or to the provider; GET /api/health reports replicateConfigured
\* true exactly when both are set.
C11_NotConfigured ==
    /\ ConfigMissing
           => /\ upSent = <<>> /\ net = <<>>
              /\ upc = "idle" /\ ppc = "idle"
              /\ hpc \in {"received", "done"}
              /\ Answered
                     => /\ Len(res) = 1 /\ res[1].code = 500 /\ OnlyError(res[1])
                        /\ res[1].body.error[1] =
                               "Server not configured. Set REPLICATE_API_TOKEN and REPLICATE_MODEL_VERSION."
    /\ health # NoHealth
           => /\ health.ok
              /\ health.replicateConfigured <=> ~ConfigMissing

\* the model identifier alone is missing, a request with a URL was answered and
\* the health endpoint was asked
C11_Witness ==
    /\ REPLICATE_API_TOKEN = <<"set">> /\ REPLICATE_MODEL_VERSION = UNDEF
    /\ req.json /\ req.url = BodyUrl
    /\ Answered /\ res[1].code = 500
    /\ health # NoHealth /\ ~health.replicateConfigured

SubmittedVideo == net[1].body

\* C12: a JSON request whose url is U with blanks around it or none, under a
\* set configuration: the submission POST carries input.video = U, and once
\* the provider has reported succeeded the request is answered 200 with status
\* "succeeded", the output of that job record and a logs string.
C12_UrlRequest ==
    (~ConfigMissing /\ req.json /\ req.url \in {BodyUrl, <<" ">> \o BodyUrl \o <<" ", " ">>})
        => /\ net # <<>>
                  => /\ net[1].method = "POST"
                     /\ SubmittedVideo = {<<"input", "video", BodyUrl>>}
           /\ (observed # <<>> /\ Last(observed) = <<"succeeded">>)
                  => /\ hpc \in {"predicting", "done"}
                     /\ Answered
                            => /\ Len(res) = 1 /\ res[1].code = 200
                               /\ res[1].body.error = UNDEF
                               /\ res[1].body.status = <<"succeeded">>
                               /\ res[1].body.output = lastRecv.output
                               /\ res[1].body.logs # UNDEF

\* a url sent with blanks around it, answered with the output of the job
C12_Witness ==
    /\ req.json /\ req.url = <<" ">> \o BodyUrl \o <<" ", " ">>
    /\ Answered /\ res[1].code = 200 /\ res[1].body.output = OutputUrl
    /\ Polls >= 1

FileRequest == ~(req.json /\ Truthy(req.url)) /\ req.file.present

UrlRequest == req.json /\ Truthy(req.url)

\* C13: for a file request no provider request exists while the chain runs;
\* the submission, when there is one, follows a returned chain and carries the
\* URL the chain returned; after an exhausted chain no provider request is ever
\* sent and the answer is an error. For a URL request no backend is contacted.
C13_UploadThenPredict ==
    /\ FileRequest
           => /\ hpc = "uploading" => net = <<>>
              /\ net # <<>>
                     => /\ upc = "returned" /\ upSent # <<>>
                        /\ net[1].method = "POST"
                        /\ SubmittedVideo = {<<"input", "video", upResult>>}
              /\ upc = "thrown"
                     => /\ net = <<>> /\ ppc = "idle"
                        /\ Answered => (Len(res) = 1 /\ res[1].code >= 400
                                         /\ OnlyError(res[1]))
    /\ UrlRequest => (upSent = <<>> /\ upc = "idle")

\* tmpfiles.org gave the URL after two backends failed, and a poll was sent
C13_Witness ==
    /\ FileRequest /\ upc = "returned" /\ Len(upSent) = 3
    /\ upOk = {"tmpfiles.org"} /\ videoUrl = upResult
    /\ Polls >= 1

BothSupplied == Truthy(req.url) /\ req.file.present

\* C14 as stated: a request that supplies both a URL and a file is handled by
\* the URL branch: the chain is not invoked and the prediction is submitted
\* with the supplied URL.
C14_UrlWins ==
    (BothSupplied /\ ~ConfigMissing)
        => /\ upSent = <<>> /\ upc = "idle"
           /\ net # <<>> => SubmittedVideo = {<<"input", "video", req.url>>}

\* C14 amended: a request that supplies both a URL and a file is a multipart
\* request and is handled by the file branch: with a usable file the chain is
\* invoked, and the prediction is submitted with the URL the chain returned,
\* not with the supplied one. The URL branch is taken by JSON requests only,
\* and these carry no file.
C14_FileWins ==
    /\ (BothSupplied /\ ~ConfigMissing /\ req.file.buffer /\ req.file.originalname)
           => /\ ~req.json
              /\ hpc # "received" => upc # "idle"
              /\ net # <<>>
                     => /\ upc = "returned"
                        /\ SubmittedVideo = {<<"input", "video", upResult>>}
                        /\ SubmittedVideo # {<<"input", "video", req.url>>}
    /\ (req.json /\ upc # "idle") => FALSE

\* a multipart request with a url field and a file was answered after its
\* file went to catbox.moe
C14_Witness ==
    /\ BothSupplied /\ req.url = FieldUrl
    /\ upOk = {"catbox.moe"}
    /\ Answered /\ res[1].code = 200

Blank(u) == u # <<>> /\ \A i \in 1..Len(u) : u[i] = " "

InvalidRequest ==
    \/ ~UrlRequest /\ ~req.file.present
    \/ ~UrlRequest /\ req.file.present /\ (~req.file.buffer \/ ~req.file.originalname)
    \/ req.json /\ Blank(req.url)

\* C15: under a set configuration, a request with neither a URL in a JSON body
\* nor a file, or with a file lacking its buffer or its name, or with a url
\* made of blanks, is answered 400 with an error message only, and no request
\* is ever sent to an upload backend or to the provider.
C15_Rejected ==
    (~ConfigMissing /\ InvalidRequest)
        => /\ upSent = <<>> /\ net = <<>> /\ upc = "idle" /\ ppc = "idle"
           /\ hpc \in {"received", "done"}
           /\ Answered => (Len(res) = 1 /\ res[1].code = 400 /\ OnlyError(res[1]))

\* a url of one blank was answered "Invalid URL."
C15_Witness ==
    /\ ~ConfigMissing /\ req.json /\ req.url = <<" ">>
    /\ Answered /\ res[1].code = 400 /\ res[1].body.error = <<"Invalid URL.">>

\* C16: a request whose upload chain or prediction call ended with an error is
\* answered once, with status 500 and a body that holds the message of that
\* error and nothing else.
C16_Failures ==
    /\ (upc = "thrown" /\ Answered)
           => res = <<[code |-> 500, body |-> Body(upErr, UNDEF, UNDEF, UNDEF)]>>
    /\ (ppc = "thrown" /\ Answered)
           => res = <<[code |-> 500, body |-> Body(pErr, UNDEF, UNDEF, UNDEF)]>>
    /\ upc = "thrown" => upErr \notin {UNDEF, <<>>}
    /\ ppc = "thrown" => pErr \notin {UNDEF, <<>>}
    /\ (upc = "thrown" \/ ppc = "thrown") => hpc \in {"uploading", "predicting", "done"}

\* the call timed out and the request was answered with its message
C16_Witness ==
    /\ ppc = "thrown" /\ pErr = <<"Prediction timed out.">>
    /\ Answered /\ res[1].code = 500 /\ res[1].body.error = pErr

----------------------------------------------------------------------------
\* Claims about requests in flight together

\* the requests in flight, the one being resumed first
InFlight == <<Locals>> \o parked

PollsOf(t) == {i \in 1..Len(t.net) : t.net[i].method = "GET"}

PollLines(t) == {i \in 1..Len(t.logs) : t.logs[i][1] = "poll: GET /v1/predictions/"}

C20_State ==
    /\ \A i \in 1..Len(InFlight) : \A j \in 1..Len(InFlight) :
           (i # j /\ InFlight[i].predictionId # UNDEF)
               => InFlight[i].predictionId # InFlight[j].predictionId
    /\ \A k \in 1..Len(InFlight) :
           LET t == InFlight[k]
           IN  /\ \A i \in PollsOf(t) : t.net[i].url = PollUrl(t.predictionId)
               /\ \A i \in PollLines(t) : Tail(t.logs[i]) = t.predictionId
               /\ t.observed # <<>> => t.lastRecv.id = t.predictionId
               /\ \A i \in 1..Len(t.net) :
                      t.net[i].method = "POST"
                          => t.net[i].body = {<<"input", "video", t.videoUrl>>}
               /\ (t.hpc = "done" /\ t.ppc = "returned")
                      => /\ Len(t.res) = 1 /\ t.res[1].code = 200
                         /\ t.res[1].body.status = t.lastRecv.status
                         /\ t.res[1].body.output = t.lastRecv.output
               /\ (t.hpc = "done" /\ t.ppc = "thrown")
                      => (Len(t.res) = 1 /\ t.res[1].body.error = t.pErr)

\* C20: with two requests in flight and their steps interleaved in any order,
\* the two predictions have different ids; each request polls the id its own
\* submission was answered with, its log names that id only, every job record
\* it reads and answers with is the one of that id; a step of one request
\* leaves the variables of the other as they were; the credential, the model
\* identifier and the Cloudinary settings never change.
C20_Isolation ==
    /\ []C20_State
    /\ [][cur' = cur => parked' = parked]_vars
    /\ [][UNCHANGED cfgVars]_vars

\* both requests were answered with a succeeded job after their polls were
\* interleaved, the first submitted being the second to be answered
C20_Witness ==
    /\ Len(InFlight) = 2
    /\ \A k \in 1..2 : /\ InFlight[k].hpc = "done" /\ InFlight[k].res[1].code = 200
                       /\ Len(InFlight[k].net) >= 3
    /\ \E k \in 1..2 : InFlight[k].upc = "returned"
    /\ predictionId = <<"p2">> /\ parked[1].predictionId = <<"p1">>

----------------------------------------------------------------------------
\* Claims about the submission, the logs and the answers

Posts == {i \in 1..Len(net) : net[i].method = "POST"}

InputFields(request) == {f \in request.body : f[1] = "input"}

C22_LogsReturned ==
    (Answered /\ logs # <<>>)
        => /\ res[1].body.logs # UNDEF
           /\ StartsWith(res[1].body.logs, Join(logs))

\* C22 on the requests that succeed: the answer holds the entries in order
C22_LogsOnSuccess ==
    (Answered /\ ppc = "returned")
        => /\ StartsWith(res[1].body.logs, Join(logs))
           /\ Len(logs) >= 3 + 2 * Polls

TimeoutText == <<"Prediction timed out.">>

\* the kind of failure a message of runPredictionWithUrl names
FailureKind(msg) ==
    IF msg = TimeoutText THEN "timeout"
    ELSE IF msg[1] = "Replicate prediction start failed: " THEN "start"
    ELSE IF msg[1] = "Replicate prediction poll failed: " THEN "poll"
    ELSE IF msg[1] = "Prediction ended with status: " THEN "ended"
    ELSE "transport"

\* C23: a failed call carries the timeout message exactly when every request
\* was answered with a job record, the last status read is queued, starting or
\* processing and more than the budget has elapsed; a non-2xx submission, a
\* non-2xx poll and a status outside the three each carry a message of their
\* own kind, never the timeout message.
C23_TimeoutDistinct ==
    ppc = "thrown"
        => /\ FailureKind(pErr) = "timeout"
                  <=> (AllAnswered /\ Last(observed) \in Waiting /\ elapsed > Budget)
           /\ FailureKind(pErr) = "start" => (observed = <<>> /\ Polls = 0)
           /\ FailureKind(pErr) = "poll" => (observed # <<>> /\ Len(observed) = Polls)
           /\ FailureKind(pErr) = "ended" <=> (AllAnswered /\ Last(observed) \notin Waiting)
           /\ (AllAnswered /\ Last(observed) \notin Waiting) => pErr # TimeoutText

\* the budget ran out while the provider answered queued, then starting
C23_Witness ==
    /\ ppc = "thrown" /\ pErr = TimeoutText
    /\ Len(observed) >= 2 /\ Last(observed) = <<"starting">> /\ observed[1] = <<"queued">>

FirstColon(s) == CHOOSE k \in 1..Len(s) : s[k] = ":" /\ \A m \in 1..(k - 1) : s[m] # ":"

BeforeColon(s) == SubSeq(s, 1, FirstColon(s) - 1)

AfterColon(s) == SubSeq(s, FirstColon(s) + 1, Len(s))

\* the same text, an empty text and null being taken as the same
SameText(a, b) == a = b \/ (a \in {NULL, <<>>} /\ b \in {NULL, <<>>})

\* C24: the parsed model is the text of REPLICATE_MODEL_VERSION before its
\* first colon and the parsed version the whole text after it; without a colon
\* the model is null and the version is the value.
C24_SplitOnce ==
    IF Contains(REPLICATE_MODEL_VERSION, ":")
    THEN /\ SameText(REPLICATE_MODEL_SLUG, BeforeColon(REPLICATE_MODEL_VERSION))
         /\ SameText(REPLICATE_VERSION_ID, AfterColon(REPLICATE_MODEL_VERSION))
    ELSE /\ REPLICATE_MODEL_SLUG = NULL
         /\ REPLICATE_VERSION_ID = REPLICATE_MODEL_VERSION

VersionPath(v) ==
    <<"https://api.replicate.com/v1/models/">> \o REPLICATE_MODEL_SLUG
        \o <<"/versions/">> \o v \o <<"/predictions">>

\* C25: a submission POST sent to the generic endpoint carries the configured
\* version id in its body; one sent to the endpoint of a model and version
\* names in its path the parsed version id, which is not empty.
C25_VersionIdentified ==
    \A i \in Posts :
        IF net[i].url = GenericEndpoint
        THEN \E f \in net[i].body : f[1] = "version" /\ f[Len(f)] = REPLICATE_VERSION_ID
        ELSE /\ Truthy(REPLICATE_VERSION_ID)
             /\ net[i].url = VersionPath(REPLICATE_VERSION_ID)

\* C26: an answer of POST /api/remove with status 200 is sent only after the
\* last status read from the provider was succeeded; its status field is
\* "succeeded", its output field is the output of the last job record read and
\* it holds no error.
C26_OkMeansSucceeded ==
    \A i \in 1..Len(res) :
        res[i].code = 200
            => /\ observed # <<>> /\ Last(observed) = <<"succeeded">>
               /\ lastRecv.status = <<"succeeded">>
               /\ res[i].body.status = <<"succeeded">>
               /\ res[i].body.output = lastRecv.output
               /\ res[i].body.error = UNDEF

\* a file request answered 200 with a succeeded job that carries no output
C26_Witness ==
    /\ FileRequest /\ Answered /\ res[1].code = 200
    /\ lastRecv.output = UNDEF /\ res[1].body.output = UNDEF

\* C29: when all requests were answered with a job record, the last status
\* read is outside queued, starting, processing and more than the budget has
\* elapsed, the call ends on that status: succeeded returns the job record,
\* any other status fails with the message that names it, and the timeout
\* message is not used.
C29_LateTerminal ==
    (AllAnswered /\ Last(observed) \notin Waiting /\ elapsed > Budget)
        => /\ pErr # TimeoutText
           /\ IF Last(observed) = <<"succeeded">>
              THEN ppc = "returned" /\ pResult = lastRecv /\ pErr = UNDEF
              ELSE /\ ppc = "thrown" /\ FailureKind(pErr) = "ended"
                   /\ SubSeq(pErr, 2, 1 + Len(Str(lastRecv.status))) = Str(lastRecv.status)

\* a poll that took five minutes answered succeeded after the budget was spent
C29_Witness ==
    /\ elapsed > Budget /\ Polls >= 2
    /\ Last(observed) = <<"succeeded">> /\ ppc = "returned"
    /\ pResult.output = OutputUrl

----------------------------------------------------------------------------
\* Claims about the URL of tmpfiles.org

DirectPrefix == <<"https://", "tmpfiles.org/", "dl", "/">>

\* C30: the URL returned for tmpfiles.org is left as it is by a second
\* normalization; an answered URL that is already under
\* https://tmpfiles.org/dl/ is returned unchanged, and an answered landing URL
\* https://tmpfiles.org/<id>/... is returned as a URL under
\* https://tmpfiles.org/dl/<id>.
C30_Idempotent ==
    upOk = {"tmpfiles.org"}
        => LET answered == HttpsCoerce(TmpfilesRaw(upResp))
           IN  /\ TmpfilesNormalize(upResult) = upResult
               /\ StartsWith(answered, DirectPrefix) => upResult = answered
               /\ (StartsWith(answered, <<"https://", "tmpfiles.org/">>)
                   /\ ~StartsWith(answered, DirectPrefix))
                      => upResult = DirectPrefix \o <<answered[3]>>

----------------------------------------------------------------------------
\* Claims about the number of polls

MostPolls == (timeoutMs \div pollDelayMs) + 1

C28_State ==
    /\ Polls * pollDelayMs <= elapsed
    /\ Polls <= MostPolls
    /\ sleeps = Polls

\* C28: a poll is sent only from a state whose elapsed time, the one the last
\* check of the budget read, is at most the budget, and after a wait of at
\* least the delay; so k polls take at least k delays and one call sends at
\* most floor(budget / delay) + 1 polls, 301 in server.js.
C28_PollBudget ==
    /\ []C28_State
    /\ [][Polls' > Polls
            => /\ elapsed <= timeoutMs
               /\ elapsed' >= elapsed + pollDelayMs
               /\ Polls' = Polls + 1]_vars

\* every timer fired on time and every answer was processing: the poll number
\* 301 was sent and answered, and the budget was found spent
C28_Witness ==
    /\ Polls = 301 /\ elapsed = 602000
    /\ ppc = "thrown" /\ pErr = TimeoutText

----------------------------------------------------------------------------
\* Claims about the answer of every request

\* C27: when every fetch settles and every timer fires, each request is
\* answered in the end, a provider that answers processing for ever included;
\* at no moment has a request two answers, an answered request is never
\* answered again, and a request that is over has one answer.
C27_OneResponse ==
    /\ <>(Answered /\ Len(res) = 1)
    /\ [](Len(res) <= 1)
    /\ [](Answered <=> Len(res) = 1)
    /\ [][Answered => (res' = res /\ hpc' = hpc)]_vars

\* the provider answered processing three times and the timeout was answered
C27_Witness ==
    /\ Answered /\ Len(res) = 1 /\ res[1].code = 500
    /\ res[1].body.error = TimeoutText
    /\ observed = <<(<<"processing">>), (<<"processing">>), (<<"processing">>)>>

----------------------------------------------------------------------------
\* Claims about catbox.moe and Cloudinary

CatboxPrefix == <<"https://", "files.catbox.moe/">>

\* the text of a 2xx answer, trimmed and with a leading http:// made https://
Cleaned(t) == HttpsCoerce(Trim(t))

OkTexts == {r \in TextResponses : r.kind = "ok"}

\* C31: while the answer of catbox.moe is awaited, a 2xx answer whose cleaned
\* text starts with https://files.catbox.moe/ can only make the call return
\* that text, and a 2xx answer with any other text can only make the call go
\* on to tmpfiles.org with nothing returned; a call that returned the URL of
\* catbox.moe holds a URL that starts with https://files.catbox.moe/.
C31_CatboxPredicate ==
    /\ upc = "catbox.moe"
           => \A r \in OkTexts :
                  IF StartsWith(Cleaned(r.text), CatboxPrefix)
                  THEN /\ ENABLED (CatboxResponse(r) /\ upc' = "returned"
                                   /\ upResult' = Cleaned(r.text))
                       /\ ~ENABLED (CatboxResponse(r) /\ upc' # "returned")
                  ELSE /\ ENABLED (CatboxResponse(r) /\ upc' = "tmpfiles.org"
                                   /\ upResult' = upResult /\ upOk' = upOk)
                       /\ ~ENABLED (CatboxResponse(r) /\ upc' # "tmpfiles.org")
    /\ "catbox.moe" \in upOk
           => /\ StartsWith(upResult, CatboxPrefix)
              /\ upResult = Cleaned(upResp.text)
              /\ ~SentTo("tmpfiles.org")

\* catbox.moe answered http://files.catbox.moe/a.mp4 followed by a blank, and
\* the call returned it as an https URL
C31_Witness ==
    /\ upOk = {"catbox.moe"} /\ upc = "returned"
    /\ upResp.text = <<"http://", "files.catbox.moe/", "a.mp4", " ">>
    /\ upResult = <<"https://", "files.catbox.moe/", "a.mp4">>

\* C32: a request goes to Cloudinary only when the cloud name and the upload
\* preset are both set, and then it is the first; when either is missing the
\* first backend contacted is catbox.moe and the backends contacted are, in
\* order, a prefix of catbox.moe, tmpfiles.org, transfer.sh.
C32_CloudinaryOptional ==
    LET both == CLOUDINARY_CLOUD_NAME # <<>> /\ CLOUDINARY_UPLOAD_PRESET # <<>>
    IN  /\ SentTo("cloudinary") => both
        /\ upSent # <<>>
               => upSent[1] = (IF both THEN "cloudinary" ELSE "catbox.moe")
        /\ ~both => /\ Len(upSent) <= 3
                    /\ upSent = SubSeq(Tail(Backends), 1, Len(upSent))
        /\ both => upSent = SubSeq(Backends, 1, Len(upSent))
        /\ upc \notin {"idle", "call"} => upSent # <<>>

\* the cloud name is set and the preset is not: catbox.moe was the first of
\* the three backends contacted
C32_Witness ==
    /\ CLOUDINARY_CLOUD_NAME = <<"set">> /\ CLOUDINARY_UPLOAD_PRESET = <<>>
    /\ upSent = Tail(Backends) /\ upc = "returned"

====
